---- MODULE Spec2Model ----
(***************************************************************************)
(* Return metrics of cagrx (src/src/cagrx/return_metrics.py): cagr,        *)
(* calculate_trailing_cagr, calculate_rolling_returns, xirr and            *)
(* calculate_sip_returns, and the date splitting of src/src/cagrx/utils.py *)
(* (split_into_date_pairs), each modelled as a call that runs from its     *)
(* arguments to a return value or a raised error.                          *)
(*                                                                         *)
(* Numbers.  Calendar dates are <<year, month, day>> and are compared and  *)
(* subtracted through their proleptic Gregorian ordinal.  The floats of    *)
(* xirr are fixed-point integers: v stands for v / Scale, and a quotient   *)
(* is rounded to the nearest unit.  Quantities of the SIP evaluation are   *)
(* exact fractions <<numerator, denominator>>.  A power with a fractional  *)
(* exponent has no integer model: the annualised rates of cagr and of the  *)
(* SIP evaluation are kept as the canonical form of the arguments of the   *)
(* closed formula (see Annualized).                                        *)
(***************************************************************************)
EXTENDS Integers, Sequences, FiniteSets, TLC

VARIABLES xirrCall, trailingCall, rollingCall, sipCall, splitCall

vars == <<xirrCall, trailingCall, rollingCall, sipCall, splitCall>>

\* A call that is not part of the specification being checked.
Idle == [pc |-> "idle"]

-----------------------------------------------------------------------------
\* Integer helpers

Abs(x) == IF x < 0 THEN -x ELSE x

Min2(a, b) == IF a <= b THEN a ELSE b

RECURSIVE Gcd(_, _)
Gcd(a, b) == IF b = 0 THEN a ELSE Gcd(b, a % b)

\* a / b rounded to the nearest integer (b # 0)
RDiv(a, b) ==
  IF b > 0 THEN (2 * a + b) \div (2 * b) ELSE (2 * (-a) + (-b)) \div (2 * (-b))

\* x * m / b rounded to the nearest integer, for m > 0 and b # 0, computed
\* without forming x * m
MulDiv(x, m, b) ==
  LET xx == IF b > 0 THEN x ELSE -x
      bb == Abs(b)
  IN  (xx \div bb) * m + RDiv((xx % bb) * m, bb)

RECURSIVE SumSeq(_)
SumSeq(s) == IF s = <<>> THEN 0 ELSE Head(s) + SumSeq(Tail(s))

-----------------------------------------------------------------------------
\* Calendar: what pandas Timestamp arithmetic does with the dates

IsLeap(y) == (y % 4 = 0 /\ y % 100 # 0) \/ y % 400 = 0

DaysInMonth(y, m) ==
  IF m = 2 THEN (IF IsLeap(y) THEN 29 ELSE 28)
  ELSE IF m \in {4, 6, 9, 11} THEN 30 ELSE 31

RECURSIVE DaysBeforeMonth(_, _)
DaysBeforeMonth(y, m) ==
  IF m = 1 THEN 0 ELSE DaysBeforeMonth(y, m - 1) + DaysInMonth(y, m - 1)

DaysBeforeYear(y) ==
  365 * (y - 1) + ((y - 1) \div 4) - ((y - 1) \div 100) + ((y - 1) \div 400)

\* the day number of a date; (a - b).days is Ordinal(a) - Ordinal(b)
Ordinal(date) ==
  DaysBeforeYear(date[1]) + DaysBeforeMonth(date[1], date[2]) + date[3]

DaysBetween(later, earlier) == Ordinal(later) - Ordinal(earlier)

\* date - pd.DateOffset(years=n): same month and day n years back, the day
\* clipped to the length of the month (29 February -> 28 February)
MinusYears(date, n) ==
  <<date[1] - n, date[2], Min2(date[3], DaysInMonth(date[1] - n, date[2]))>>

\* stable ascending sort of the positions 1..Len(keys) by integer key
RECURSIVE InsertIndex(_, _, _)
InsertIndex(sorted, keys, i) ==
  IF sorted = <<>> THEN <<i>>
  ELSE IF keys[Head(sorted)] <= keys[i]
       THEN <<Head(sorted)>> \o InsertIndex(Tail(sorted), keys, i)
       ELSE <<i>> \o sorted

RECURSIVE ArgSortUpTo(_, _)
ArgSortUpTo(keys, n) ==
  IF n = 0 THEN <<>> ELSE InsertIndex(ArgSortUpTo(keys, n - 1), keys, n)

ArgSort(keys) == ArgSortUpTo(keys, Len(keys))

Permute(s, idx) == [i \in 1..Len(idx) |-> s[idx[i]]]

OrdinalsOf(dates) == [i \in 1..Len(dates) |-> Ordinal(dates[i])]

\* all sequences over S of length lo..hi
SeqsOf(S, lo, hi) == UNION {[1..n -> S] : n \in lo..hi}

-----------------------------------------------------------------------------
\* xirr(cashflows, dates, guess, max_iterations, tolerance)

\* fixed-point resolution of the rates and present values: v stands for v / Scale
Scale == 10 ^ 3

DaysPerYear == 365

\* the exponent day / 365.0; the dates of XirrDates lie whole years apart
YearsOf(day) == day \div DaysPerYear

\* x / (1 + rate) ** k, with base = Scale * (1 + rate) # 0
RECURSIVE Discount(_, _, _)
Discount(x, base, k) ==
  IF k = 0 THEN x ELSE Discount(MulDiv(x, Scale, base), base, k - 1)

\* sum(cf / ((1 + rate) ** (day / 365.0)) for cf, day in zip(cashflows, days))
Npv(cashflows, days, rate) ==
  SumSeq([i \in 1..Len(cashflows) |->
            Discount(cashflows[i] * Scale, Scale + rate, YearsOf(days[i]))])

\* sum(-cf * day / 365.0 / ((1 + rate) ** (day / 365.0 + 1)) for ...)
Dnpv(cashflows, days, rate) ==
  SumSeq([i \in 1..Len(cashflows) |->
            Discount((-cashflows[i]) * YearsOf(days[i]) * Scale, Scale + rate,
                     YearsOf(days[i]) + 1)])

\* (1 + rate) == 0.0: 0.0 ** x is 0.0 for x > 0, and every term of dnpv (and
\* every term of npv with day > 0) divides a float by it
DividesByZero(rate) == Scale + rate = 0

\* abs(npv) < tolerance
Converged(npv, tolerance) == Abs(npv) < tolerance

\* abs(dnpv) < 1e-10: 1e-10 lies below the resolution, so of the representable
\* values only 0 is that small
DerivativeTooSmall(dnpv) == dnpv = 0

\* rate - npv / dnpv
NewtonUpdate(rate, npv, dnpv) == rate - MulDiv(npv, Scale, dnpv)

RateMin == -((99 * Scale) \div 100)

RateMax == 10 * Scale

\* the guard with the upper limit itself rejected
OutOfBoundsStrict(rate) == rate < RateMin \/ rate >= RateMax

\* rate < -0.99 or rate > 10
OutOfBounds(rate) == rate < RateMin \/ rate > RateMax


\* round(rate, 6), in millionths
Round6(rate) == rate * ((10 ^ 6) \div Scale)

\* len(cashflows) != len(dates)
LengthMismatch(cashflows, dates) == Len(cashflows) # Len(dates)

\* the length check off by one
TooFewCashflowsBelowOne(cashflows) == Len(cashflows) < 1

\* len(cashflows) < 2
TooFewCashflows(cashflows) == Len(cashflows) < 2

SameLengthError == "cashflows and dates must have the same length"
AtLeastTwoError == "At least 2 cash flows are required"
DerivativeError == "XIRR calculation failed: derivative too small"
BoundsError == "XIRR calculation failed: rate out of reasonable bounds"
NotConvergedError == "XIRR did not converge"
ZeroDivisionError == "ZeroDivisionError: float division by zero"

\* bounds of the inputs of xirr
MaxCashflows == 3
MaxIterations == 3

XirrAmounts == {-1, 1, 9, 12}
XirrDates == {<<2021, 1, 1>>, <<2022, 1, 1>>}
\* guesses -1.0, 0.0, 0.1 (the default) and 11.0
XirrGuesses == {-Scale, 0, Scale \div 10, 11 * Scale}
\* tolerance 0.002
XirrTolerances == {2}

XirrInit ==
  /\ \E cashflows \in SeqsOf(XirrAmounts, 0, MaxCashflows),
        dates \in SeqsOf(XirrDates, 0, MaxCashflows),
        guess \in XirrGuesses,
        max_iterations \in 0..MaxIterations,
        tolerance \in XirrTolerances :
       xirrCall = [pc |-> "validate", cashflows |-> cashflows, dates |-> dates,
                   guess |-> guess, max_iterations |-> max_iterations,
                   tolerance |-> tolerance, sorted |-> FALSE, days |-> <<>>,
                   rate |-> guess, iteration |-> 0, npv_evals |-> 0,
                   outcome |-> "running", result |-> 0]
  /\ trailingCall = Idle
  /\ rollingCall = Idle
  /\ sipCall = Idle
  /\ splitCall = Idle

XirrRaise(call, error) == [call EXCEPT !.pc = "done", !.outcome = error]

\* lines 111-115
XirrValidate ==
  /\ xirrCall.pc = "validate"
  /\ xirrCall' =
       IF LengthMismatch(xirrCall.cashflows, xirrCall.dates)
         THEN XirrRaise(xirrCall, SameLengthError)
       ELSE IF TooFewCashflows(xirrCall.cashflows)
         THEN XirrRaise(xirrCall, AtLeastTwoError)
       ELSE [xirrCall EXCEPT !.pc = "sort"]
  /\ UNCHANGED <<trailingCall, rollingCall, sipCall, splitCall>>

\* lines 118-130
XirrSort ==
  /\ xirrCall.pc = "sort"
  /\ LET sorted_indices == ArgSort(OrdinalsOf(xirrCall.dates))
         cashflows == Permute(xirrCall.cashflows, sorted_indices)
         dates == Permute(xirrCall.dates, sorted_indices)
         start_date == dates[1]
         days == [i \in 1..Len(dates) |-> DaysBetween(dates[i], start_date)]
     IN  xirrCall' = [xirrCall EXCEPT !.pc = "loop", !.cashflows = cashflows,
                                      !.dates = dates, !.sorted = TRUE,
                                      !.days = days, !.rate = xirrCall.guess]
  /\ UNCHANGED <<trailingCall, rollingCall, sipCall, splitCall>>

\* one pass of the loop body, lines 132-152
XirrIterate ==
  /\ xirrCall.pc = "loop"
  /\ xirrCall.iteration < xirrCall.max_iterations
  /\ LET c == [xirrCall EXCEPT !.npv_evals = @ + 1]
         rate == xirrCall.rate
     IN  IF DividesByZero(rate)
           THEN xirrCall' = XirrRaise(c, ZeroDivisionError)
         ELSE
           LET npv == Npv(c.cashflows, c.days, rate)
               dnpv == Dnpv(c.cashflows, c.days, rate)
           IN  IF Converged(npv, c.tolerance)
                 THEN xirrCall' = [c EXCEPT !.pc = "done", !.outcome = "returned",
                                            !.result = Round6(rate)]
               ELSE IF DerivativeTooSmall(dnpv)
                 THEN xirrCall' = XirrRaise(c, DerivativeError)
               ELSE
                 LET updated == NewtonUpdate(rate, npv, dnpv)
                 IN  IF OutOfBounds(updated)
                       THEN xirrCall' = XirrRaise([c EXCEPT !.rate = updated], BoundsError)
                     ELSE xirrCall' = [c EXCEPT !.rate = updated, !.iteration = @ + 1]
  /\ UNCHANGED <<trailingCall, rollingCall, sipCall, splitCall>>

\* line 154
XirrExhausted ==
  /\ xirrCall.pc = "loop"
  /\ xirrCall.iteration >= xirrCall.max_iterations
  /\ xirrCall' = XirrRaise(xirrCall, NotConvergedError)
  /\ UNCHANGED <<trailingCall, rollingCall, sipCall, splitCall>>

XirrNext == XirrValidate \/ XirrSort \/ XirrIterate \/ XirrExhausted

SpecXirr == XirrInit /\ [][XirrNext]_vars

-----------------------------------------------------------------------------
\* cagr(df, column) and calculate_trailing_cagr(df, column, periods)
\*
\* A DataFrame is [columns |-> set of column names, rows |-> sequence of
\* [date |-> <<y, m, d>>, nav |-> value]] with the index in row order.

\* The value (num / den) ** (basisNum / (basisDen * days)) - 1 of a closed
\* annualisation formula.  The power is not computed: the value is kept as the
\* canonical form of its arguments, the ratio in lowest terms and the days,
\* and a ratio of 1 or 0 (value 0 or -1 whatever the days) has one form.
\* Equal forms denote equal values; for the NAV values of this model no ratio
\* is a rational power of another, so different forms of cagr denote different
\* values.
Annualized(num, den, days, basis) ==
  IF num = den THEN [kind |-> "rate", ratio |-> <<1, 1>>, days |-> 0, basis |-> basis]
  ELSE IF num = 0 THEN [kind |-> "rate", ratio |-> <<0, 1>>, days |-> 0, basis |-> basis]
  ELSE LET g == Gcd(Abs(num), Abs(den))
       IN  [kind |-> "rate", ratio |-> <<num \div g, den \div g>>, days |-> days,
            basis |-> basis]

CagrError == [kind |-> "ValueError", message |-> "Invalid data for CAGR calculation."]

None == [kind |-> "None"]

\* lines 14-23; round(cagr, 3) is part of the form (basis 365 days, 3 decimals)
cagr(rows) ==
  LET start_value == rows[1].nav
      end_value == rows[Len(rows)].nav
      days == DaysBetween(rows[Len(rows)].date, rows[1].date)
  IN  IF start_value <= 0 \/ days <= 0
        THEN CagrError
        ELSE Annualized(end_value, start_value, days, <<DaysPerYear, 1>>)

RowKeys(rows) == [i \in 1..Len(rows) |-> Ordinal(rows[i].date)]

\* df.sort_index(ascending=False)
SortIndexDescending(rows) ==
  LET asc == Permute(rows, ArgSort(RowKeys(rows)))
  IN  [i \in 1..Len(asc) |-> asc[Len(asc) + 1 - i]]

\* df.sort_values(column): ordered by value instead of by date
SortByValue(rows) ==
  Permute(rows, ArgSort([i \in 1..Len(rows) |-> rows[i].nav]))

\* df.sort_index()
SortIndex(rows) == Permute(rows, ArgSort(RowKeys(rows)))

\* df.loc[start_date:] on an ascending index
RowsFrom(rows, start_date) ==
  SelectSeq(rows, LAMBDA r : Ordinal(r.date) >= Ordinal(start_date))

\* the test with the first date itself counted as too early
InsufficientHistoryInclusive(start_date, first_date) ==
  Ordinal(start_date) <= Ordinal(first_date)

\* start_date < df.index[0]
InsufficientHistory(start_date, first_date) ==
  Ordinal(start_date) < Ordinal(first_date)

\* 'Max_CAGR' and f'{period}Y_CAGR' for the periods of TrailingPeriods
Label(period) ==
  CASE period = -1 -> "Max_CAGR"
    [] period = 1 -> "1Y_CAGR"
    [] period = 2 -> "2Y_CAGR"
    [] period = 3 -> "3Y_CAGR"

\* cagr_metrics[key] = value
DictSet(dict, key, value) ==
  [k \in DOMAIN dict \cup {key} |-> IF k = key THEN value ELSE dict[k]]

EmptyDict == [k \in {} |-> None]

ColumnError == "Column not found in DataFrame"

\* bounds of the inputs of the series functions
MaxRows == 3
MaxPeriods == 2

NavDates == {<<2019, 2, 28>>, <<2020, 2, 29>>, <<2021, 3, 1>>, <<2022, 3, 1>>}
NavValues == {100, 120}
TrailingPeriods == {-1, 1, 2}
ColumnSets == {{"nav"}, {"close"}}

Injective(s) == \A i, j \in 1..Len(s) : i # j => s[i] # s[j]

\* the series over the given dates, with unique dates, in any row order
NavRows(dates, lo, hi) ==
  UNION {{[i \in 1..Len(d) |-> [date |-> d[i], nav |-> v[i]]] :
            v \in [1..Len(d) -> NavValues]} :
         d \in {x \in SeqsOf(dates, lo, hi) : Injective(x)}}

TrailingInit ==
  /\ \E rows \in NavRows(NavDates, 1, MaxRows),
        columns \in ColumnSets,
        periods \in SeqsOf(TrailingPeriods, 0, MaxPeriods) :
       trailingCall = [pc |-> "start", df |-> [columns |-> columns, rows |-> rows],
                       periods |-> periods, sorted_df |-> <<>>, next |-> 1,
                       cagr_metrics |-> EmptyDict, cagr_calls |-> <<>>,
                       outcome |-> "running", failed_period |-> 0,
                       result |-> EmptyDict]
  /\ xirrCall = Idle
  /\ rollingCall = Idle
  /\ sipCall = Idle
  /\ splitCall = Idle

\* lines 36-40
TrailingStart ==
  /\ trailingCall.pc = "start"
  /\ trailingCall' =
       IF "nav" \notin trailingCall.df.columns
         THEN [trailingCall EXCEPT !.pc = "done", !.outcome = ColumnError]
         ELSE [trailingCall EXCEPT !.pc = "loop",
                                   !.sorted_df = SortIndex(trailingCall.df.rows)]
  /\ UNCHANGED <<xirrCall, rollingCall, sipCall, splitCall>>

\* the effect of cagr_metrics[label] = cagr(rows) for the window `period`
TrailingAssignCagr(call, period, rows) ==
  LET value == cagr(rows)
      called == [call EXCEPT !.cagr_calls = Append(@, period)]
  IN  IF value.kind = "ValueError"
        THEN [called EXCEPT !.pc = "done", !.outcome = value.message,
                            !.failed_period = period]
        ELSE [called EXCEPT !.cagr_metrics = DictSet(@, Label(period), value),
                            !.next = @ + 1]

\* one pass of the loop over periods, lines 42-55
TrailingPeriod ==
  /\ trailingCall.pc = "loop"
  /\ trailingCall.next <= Len(trailingCall.periods)
  /\ LET period == trailingCall.periods[trailingCall.next]
         df == trailingCall.sorted_df
         start_date == MinusYears(df[Len(df)].date, period)
     IN  trailingCall' =
           IF period = -1
             THEN TrailingAssignCagr(trailingCall, period, df)
           ELSE IF InsufficientHistory(start_date, df[1].date)
             THEN [trailingCall EXCEPT
                     !.cagr_metrics = DictSet(@, Label(period), None),
                     !.next = @ + 1]
           ELSE TrailingAssignCagr(trailingCall, period, RowsFrom(df, start_date))
  /\ UNCHANGED <<xirrCall, rollingCall, sipCall, splitCall>>

\* line 57
TrailingReturn ==
  /\ trailingCall.pc = "loop"
  /\ trailingCall.next > Len(trailingCall.periods)
  /\ trailingCall' = [trailingCall EXCEPT !.pc = "done", !.outcome = "returned",
                                          !.result = trailingCall.cagr_metrics]
  /\ UNCHANGED <<xirrCall, rollingCall, sipCall, splitCall>>

TrailingNext == TrailingStart \/ TrailingPeriod \/ TrailingReturn

SpecTrailing == TrailingInit /\ [][TrailingNext]_vars

-----------------------------------------------------------------------------
\* calculate_rolling_returns(df, column, period), period a DateOffset of years

Digits == <<"0", "1", "2", "3", "4", "5", "6", "7", "8", "9">>

Digit(n) == Digits[n + 1]

DigitValue(c) == (CHOOSE i \in 1..10 : Digits[i] = c) - 1

\* str(date): 'YYYY-MM-DD', as the sequence of its characters
IsoFormat(date) ==
  <<Digit(date[1] \div 1000), Digit((date[1] \div 100) % 10),
    Digit((date[1] \div 10) % 10), Digit(date[1] % 10), "-",
    Digit(date[2] \div 10), Digit(date[2] % 10), "-",
    Digit(date[3] \div 10), Digit(date[3] % 10)>>

\* the date that a 'YYYY-MM-DD' string names
ParseIso(str) ==
  <<1000 * DigitValue(str[1]) + 100 * DigitValue(str[2])
      + 10 * DigitValue(str[3]) + DigitValue(str[4]),
    10 * DigitValue(str[6]) + DigitValue(str[7]),
    10 * DigitValue(str[9]) + DigitValue(str[10])>>

\* a missing value (NaN) is <<>>, a value v is <<v>>
NaN == <<>>

\* merge_asof, direction='forward': the first right row with date >= key
RECURSIVE AsofForward(_, _)
AsofForward(right, key) ==
  IF right = <<>> THEN NaN
  ELSE IF Ordinal(Head(right).date) >= Ordinal(key) THEN <<Head(right).nav>>
  ELSE AsofForward(Tail(right), key)

\* merge_asof with direction='forward' given where the default was meant
AsofNextAfter(right, key) == AsofForward(right, key)

\* merge_asof, direction='backward' (the default): the last right row with
\* date <= key, found by scanning the ascending right side
RECURSIVE AsofBackwardFrom(_, _, _)
AsofBackwardFrom(right, key, found) ==
  IF right = <<>> \/ Ordinal(Head(right).date) > Ordinal(key) THEN found
  ELSE AsofBackwardFrom(Tail(right), key, <<Head(right).nav>>)

AsofBackward(right, key) == AsofBackwardFrom(right, key, NaN)

\* is_monotonic_increasing of a sequence of dates
MonotonicIncreasing(dates) ==
  \A i \in 1..(Len(dates) - 1) : Ordinal(dates[i]) <= Ordinal(dates[i + 1])

\* ((nav_current - nav_past) / nav_past).round(3), in thousandths
Returns(nav_current, nav_past) == RDiv((nav_current - nav_past) * 1000, nav_past)

\* idxmax / idxmin: the position of the first row with the extreme value
FirstArgMax(s) ==
  CHOOSE i \in 1..Len(s) :
    /\ \A j \in 1..Len(s) : s[j] <= s[i]
    /\ \A j \in 1..(i - 1) : s[j] < s[i]

FirstArgMin(s) ==
  CHOOSE i \in 1..Len(s) :
    /\ \A j \in 1..Len(s) : s[j] >= s[i]
    /\ \A j \in 1..(i - 1) : s[j] > s[i]

KeyError == "KeyError: column"
LeftKeysError == "left keys must be sorted"
RightKeysError == "right keys must be sorted"
EmptyArgmaxError == "attempt to get argmax of an empty sequence"

RollingPeriods == {1, 2}

RollingInit ==
  /\ \E rows \in NavRows(NavDates, 1, MaxRows),
        columns \in ColumnSets,
        period \in RollingPeriods :
       rollingCall = [pc |-> "start", df |-> [columns |-> columns, rows |-> rows],
                      period |-> period, rolling_df |-> <<>>,
                      outcome |-> "running", result |-> <<>>]
  /\ xirrCall = Idle
  /\ trailingCall = Idle
  /\ sipCall = Idle
  /\ splitCall = Idle

\* lines 68-77: the offset dates, the as-of merge and dropna
RollingMerge ==
  /\ rollingCall.pc = "start"
  /\ LET rows == rollingCall.df.rows
         past_date == [i \in 1..Len(rows) |-> MinusYears(rows[i].date, rollingCall.period)]
         merged == [i \in 1..Len(rows) |->
                      [date |-> rows[i].date, nav_current |-> rows[i].nav,
                       past_date |-> past_date[i],
                       nav_past |-> AsofBackward(rows, past_date[i])]]
         fail(error) == [rollingCall EXCEPT !.pc = "done", !.outcome = error]
     IN  rollingCall' =
           IF "nav" \notin rollingCall.df.columns THEN fail(KeyError)
           ELSE IF ~MonotonicIncreasing(past_date) THEN fail(LeftKeysError)
           ELSE IF ~MonotonicIncreasing([i \in 1..Len(rows) |-> rows[i].date])
             THEN fail(RightKeysError)
           ELSE [rollingCall EXCEPT
                   !.pc = "reduce",
                   !.rolling_df = SelectSeq(merged, LAMBDA r : r.nav_past # NaN)]
  /\ UNCHANGED <<xirrCall, trailingCall, sipCall, splitCall>>

\* lines 78-90: the returns and their maximum, minimum and mean
RollingReduce ==
  /\ rollingCall.pc = "reduce"
  /\ LET rolling_df == rollingCall.rolling_df
         returns == [i \in 1..Len(rolling_df) |->
                       Returns(rolling_df[i].nav_current, rolling_df[i].nav_past[1])]
     IN  rollingCall' =
           IF rolling_df = <<>>
             THEN [rollingCall EXCEPT !.pc = "done", !.outcome = EmptyArgmaxError]
             ELSE
               LET max_row == FirstArgMax(returns)
                   min_row == FirstArgMin(returns)
               IN  [rollingCall EXCEPT
                      !.pc = "done", !.outcome = "returned",
                      !.result =
                        [max_returns |-> returns[max_row],
                         max_return_period |->
                           <<IsoFormat(rolling_df[max_row].past_date),
                             IsoFormat(rolling_df[max_row].date)>>,
                         min_returns |-> returns[min_row],
                         min_return_period |->
                           <<IsoFormat(rolling_df[min_row].past_date),
                             IsoFormat(rolling_df[min_row].date)>>,
                         avg_return |-> RDiv(SumSeq(returns), Len(returns))]]
  /\ UNCHANGED <<xirrCall, trailingCall, sipCall, splitCall>>

RollingNext == RollingMerge \/ RollingReduce

SpecRolling == RollingInit /\ [][RollingNext]_vars

-----------------------------------------------------------------------------
\* calculate_sip_returns(sip_cashflows, nav_df, column)
\*
\* sip_cashflows is [columns, rows] with rows [date, amount]; quantities that
\* a division produces are exact fractions <<numerator, denominator>>.

Frac(n, d) ==
  LET g == Gcd(Abs(n), Abs(d))
  IN  IF d < 0 THEN <<(-n) \div g, (-d) \div g>> ELSE <<n \div g, d \div g>>

FracAdd(a, b) == Frac(a[1] * b[2] + b[1] * a[2], a[2] * b[2])

FracSub(a, b) == Frac(a[1] * b[2] - b[1] * a[2], a[2] * b[2])

FracMul(a, b) == Frac(a[1] * b[1], a[2] * b[2])

FracDiv(a, b) == Frac(a[1] * b[2], a[2] * b[1])

\* Series.sum(): missing values are skipped
RECURSIVE SumSkipNaN(_)
SumSkipNaN(s) ==
  IF s = <<>> THEN <<0, 1>>
  ELSE IF Head(s) = NaN THEN SumSkipNaN(Tail(s))
  ELSE FracAdd(Head(s)[1], SumSkipNaN(Tail(s)))

\* round(x, decimals) of a fraction, in units of 10 ** -decimals
RoundTo(x, decimals) == RDiv(x[1] * (10 ^ decimals), x[2])

\* the day count 365.25 of the SIP evaluation, as 1461 / 4
SipBasis == <<1461, 4>>

\* the literal 0 of lines 225 and 227
SipZero == Annualized(1, 1, 0, SipBasis)

\* ((current_value / total_invested) ** (1 / years) - 1) * 100 with
\* years = days / 365.25, rounded to 2 decimals on return
SipAnnualized(current_value, total_invested, days) ==
  Annualized(current_value[1], current_value[2] * total_invested, days, SipBasis)

\* the test of line 216 with a single contribution let through
MoreThanNone(rows) == Len(rows) > 0

\* len(sip_cashflows) > 1
MoreThanOne(rows) == Len(rows) > 1

\* merge_asof with the default direction given where 'forward' was meant
AsofStalePrior(right, key) == AsofBackward(right, key)

\* the NAV of a contribution: merge_asof(..., direction='forward')
SipNav(right, key) == AsofForward(right, key)

AmountColumnError == "sip_cashflows must have 'amount' column"
NavColumnError == "Column not found in nav_df"

MaxContributions == 2
MaxSipNavRows == 2

SipDates == {<<2019, 2, 28>>, <<2020, 1, 15>>, <<2022, 6, 1>>}
SipNavDates == {<<2019, 2, 28>>, <<2020, 2, 29>>, <<2021, 3, 1>>}
SipAmounts == {0, 1000}
SipColumnSets == {<<{"amount"}, {"nav"}>>, <<{"value"}, {"nav"}>>, <<{"amount"}, {"close"}>>}

SipRows(lo, hi) ==
  UNION {{[i \in 1..Len(d) |-> [date |-> d[i], amount |-> a[i]]] :
            a \in [1..Len(d) -> SipAmounts]} :
         d \in SeqsOf(SipDates, lo, hi)}

SipInit ==
  /\ \E rows \in SipRows(1, MaxContributions),
        nav_rows \in NavRows(SipNavDates, 1, MaxSipNavRows),
        columns \in SipColumnSets :
       sipCall = [pc |-> "start",
                  sip_cashflows |-> [columns |-> columns[1], rows |-> rows],
                  nav_df |-> [columns |-> columns[2], rows |-> nav_rows],
                  sorted_sip |-> <<>>, sorted_nav |-> <<>>, merged |-> <<>>,
                  total_invested |-> 0, total_units |-> <<0, 1>>,
                  current_value |-> <<0, 1>>, annualized_return |-> SipZero,
                  outcome |-> "running", result |-> <<>>]
  /\ xirrCall = Idle
  /\ trailingCall = Idle
  /\ rollingCall = Idle
  /\ splitCall = Idle

\* lines 176-179
SipValidate ==
  /\ sipCall.pc = "start"
  /\ sipCall' =
       IF "amount" \notin sipCall.sip_cashflows.columns
         THEN [sipCall EXCEPT !.pc = "done", !.outcome = AmountColumnError]
       ELSE IF "nav" \notin sipCall.nav_df.columns
         THEN [sipCall EXCEPT !.pc = "done", !.outcome = NavColumnError]
       ELSE [sipCall EXCEPT !.pc = "merge"]
  /\ UNCHANGED <<xirrCall, trailingCall, rollingCall, splitCall>>

\* lines 182-199: both series sorted, the forward as-of merge, the units
SipMerge ==
  /\ sipCall.pc = "merge"
  /\ LET sip_cashflows == SortIndex(sipCall.sip_cashflows.rows)
         nav_df == SortIndex(sipCall.nav_df.rows)
         priced == [i \in 1..Len(sip_cashflows) |->
                      [date |-> sip_cashflows[i].date,
                       amount |-> sip_cashflows[i].amount,
                       nav |-> SipNav(nav_df, sip_cashflows[i].date)]]
         merged == [i \in 1..Len(priced) |->
                      [date |-> priced[i].date, amount |-> priced[i].amount,
                       nav |-> priced[i].nav,
                       units |-> IF priced[i].nav = NaN THEN NaN
                                 ELSE <<Frac(priced[i].amount, priced[i].nav[1])>>]]
     IN  sipCall' = [sipCall EXCEPT !.pc = "aggregate", !.sorted_sip = sip_cashflows,
                                    !.sorted_nav = nav_df, !.merged = merged]
  /\ UNCHANGED <<xirrCall, trailingCall, rollingCall, splitCall>>

\* lines 202-238
SipAggregate ==
  /\ sipCall.pc = "aggregate"
  /\ LET merged == sipCall.merged
         sip_cashflows == sipCall.sorted_sip
         nav_df == sipCall.sorted_nav
         total_invested == SumSeq([i \in 1..Len(merged) |-> merged[i].amount])
         total_units == SumSkipNaN([i \in 1..Len(merged) |-> merged[i].units])
         current_nav == nav_df[Len(nav_df)].nav
         current_value == FracMul(total_units, <<current_nav, 1>>)
         absolute_returns == FracSub(current_value, <<total_invested, 1>>)
         return_percentage ==
           IF total_invested > 0
             THEN FracMul(FracDiv(absolute_returns, <<total_invested, 1>>), <<100, 1>>)
             ELSE <<0, 1>>
         days == DaysBetween(nav_df[Len(nav_df)].date, sip_cashflows[1].date)
         annualized_return ==
           IF MoreThanOne(sip_cashflows)
             THEN IF days > 0 /\ total_invested > 0
                    THEN SipAnnualized(current_value, total_invested, days)
                    ELSE SipZero
             ELSE SipZero
     IN  sipCall' =
           [sipCall EXCEPT
              !.pc = "done", !.outcome = "returned",
              !.total_invested = total_invested, !.total_units = total_units,
              !.current_value = current_value,
              !.annualized_return = annualized_return,
              !.result =
                [total_invested |-> RoundTo(<<total_invested, 1>>, 2),
                 current_value |-> RoundTo(current_value, 2),
                 absolute_returns |-> RoundTo(absolute_returns, 2),
                 return_percentage |-> RoundTo(return_percentage, 2),
                 annualized_return |-> annualized_return,
                 total_units |-> RoundTo(total_units, 4),
                 current_nav |-> RoundTo(<<current_nav, 1>>, 2),
                 investment_period_days |->
                   IF Len(sip_cashflows) > 0 THEN days ELSE 0]]
  /\ UNCHANGED <<xirrCall, trailingCall, rollingCall, splitCall>>

SipNext == SipValidate \/ SipMerge \/ SipAggregate

SpecSip == SipInit /\ [][SipNext]_vars

-----------------------------------------------------------------------------
\* split_into_date_pairs (src/src/cagrx/utils.py, lines 4-22)

\* date + timedelta(days=1)
NextDay(date) ==
  IF date[3] < DaysInMonth(date[1], date[2]) THEN <<date[1], date[2], date[3] + 1>>
  ELSE IF date[2] < 12 THEN <<date[1], date[2] + 1, 1>>
  ELSE <<date[1] + 1, 1, 1>>

RECURSIVE AddDays(_, _)
\* date + timedelta(days=n), n >= 0
AddDays(date, n) == IF n = 0 THEN date ELSE AddDays(NextDay(date), n - 1)

\* min(a, b) of two datetimes
MinDate(a, b) == IF Ordinal(b) < Ordinal(a) THEN b ELSE a

\* the loop condition of line 15: current_start < end_date
MoreToSplit(current_start, end_date) ==
  Ordinal(current_start) < Ordinal(end_date)

\* line 16
CurrentEnd(current_start, end_date, n_days) ==
  MinDate(AddDays(current_start, n_days - 1), end_date)

MaxNDays == 3

SplitDates == {<<2024, 2, 26>>, <<2024, 2, 27>>, <<2024, 2, 28>>,
               <<2024, 2, 29>>, <<2024, 3, 1>>, <<2024, 3, 2>>}

\* the arguments are 'YYYY-MM-DD' strings
SplitInit ==
  /\ \E start_date \in SplitDates, end_date \in SplitDates,
        n_days \in 1..MaxNDays :
       splitCall = [pc |-> "parse",
                    start_date_str |-> IsoFormat(start_date),
                    end_date_str |-> IsoFormat(end_date),
                    n_days |-> n_days,
                    start_date |-> <<>>, end_date |-> <<>>,
                    current_start |-> <<>>, pairs |-> <<>>,
                    result |-> <<>>]
  /\ xirrCall = Idle
  /\ trailingCall = Idle
  /\ rollingCall = Idle
  /\ sipCall = Idle

\* lines 9-13
SplitParse ==
  /\ splitCall.pc = "parse"
  /\ splitCall' = [splitCall EXCEPT
                     !.pc = "loop",
                     !.start_date = ParseIso(splitCall.start_date_str),
                     !.end_date = ParseIso(splitCall.end_date_str),
                     !.current_start = ParseIso(splitCall.start_date_str),
                     !.pairs = <<>>]
  /\ UNCHANGED <<xirrCall, trailingCall, rollingCall, sipCall>>

\* lines 15-20: one pass of the loop body
SplitStep ==
  /\ splitCall.pc = "loop"
  /\ MoreToSplit(splitCall.current_start, splitCall.end_date)
  /\ LET current_end == CurrentEnd(splitCall.current_start, splitCall.end_date,
                                   splitCall.n_days)
     IN splitCall' = [splitCall EXCEPT
                        !.pairs = Append(@, <<IsoFormat(splitCall.current_start),
                                              IsoFormat(current_end)>>),
                        !.current_start = NextDay(current_end)]
  /\ UNCHANGED <<xirrCall, trailingCall, rollingCall, sipCall>>

\* lines 15 and 22: the loop condition fails and the pairs are returned
SplitReturn ==
  /\ splitCall.pc = "loop"
  /\ ~MoreToSplit(splitCall.current_start, splitCall.end_date)
  /\ splitCall' = [splitCall EXCEPT !.pc = "done", !.result = splitCall.pairs]
  /\ UNCHANGED <<xirrCall, trailingCall, rollingCall, sipCall>>

SplitNext == SplitParse \/ SplitStep \/ SplitReturn

SpecSplit == SplitInit /\ [][SplitNext]_vars

-----------------------------------------------------------------------------
\* Properties of xirr

XirrInvalidErrors == {SameLengthError, AtLeastTwoError}

XirrInputInvalid ==
  Len(xirrCall.cashflows) # Len(xirrCall.dates) \/ Len(xirrCall.cashflows) < 2

\* C1: a call that passes validation evaluates NPV at most max_iterations
\* times and ends in one of four ways: it returns the rate, or it fails with
\* 'derivative too small', 'rate out of reasonable bounds' or 'did not
\* converge' (the last only when the loop ran its max_iterations passes).
C1_FourOutcomes ==
  /\ xirrCall.npv_evals <= xirrCall.max_iterations
  /\ (xirrCall.pc = "done" /\ ~XirrInputInvalid) =>
       /\ xirrCall.outcome \in
            {"returned", DerivativeError, BoundsError, NotConvergedError}
       /\ xirrCall.outcome = NotConvergedError =>
            xirrCall.npv_evals = xirrCall.max_iterations

\* C8: with fewer than 2 cash flows or lists of different lengths the call
\* fails with an invalid-input error, and nothing is sorted and no pass of the
\* loop runs; with equal lengths >= 2 it never ends with such an error.
C8_InvalidInput ==
  /\ XirrInputInvalid =>
       /\ xirrCall.sorted = FALSE
       /\ xirrCall.npv_evals = 0
       /\ xirrCall.iteration = 0
       /\ xirrCall.pc \in {"validate", "done"}
       /\ xirrCall.pc = "done" => xirrCall.outcome \in XirrInvalidErrors
  /\ ~XirrInputInvalid => xirrCall.outcome \notin XirrInvalidErrors

\* a single cash flow with a single date was rejected
C8_Witness ==
  /\ xirrCall.pc = "done"
  /\ Len(xirrCall.cashflows) = 1
  /\ Len(xirrCall.dates) = 1
  /\ xirrCall.outcome = AtLeastTwoError

\* the guard on updated rates: a rate the loop goes on with after an update
\* lies in [-0.99, 10], and a bounds failure is raised in the pass that
\* produced the rate, only for a rate < -0.99 or > 10
XirrGuardOnUpdates ==
  /\ (xirrCall.pc = "loop" /\ xirrCall.iteration > 0) =>
       (100 * xirrCall.rate >= -99 * Scale /\ xirrCall.rate <= 10 * Scale)
  /\ (xirrCall.pc = "done" /\ xirrCall.outcome = BoundsError) =>
       /\ (100 * xirrCall.rate < -99 * Scale \/ xirrCall.rate > 10 * Scale)
       /\ xirrCall.npv_evals = xirrCall.iteration + 1

XirrResultInBounds == xirrCall.result >= -990000 /\ xirrCall.result <= 10000000

\* C10 as claimed: the guard holds for every updated rate, and every rate
\* that xirr returns lies in [-0.99, 10.0].
C10_EveryReturnedRateInBounds ==
  /\ XirrGuardOnUpdates
  /\ (xirrCall.pc = "done" /\ xirrCall.outcome = "returned") => XirrResultInBounds

\* C10 as amended: the guard holds for every updated rate; a rate returned
\* after at least one Newton update lies in [-0.99, 10.0], and a rate
\* returned at the first evaluation is the caller's guess, unchecked.
C10_UpdatedRatesInBounds ==
  /\ XirrGuardOnUpdates
  /\ (xirrCall.pc = "done" /\ xirrCall.outcome = "returned") =>
       IF xirrCall.iteration > 0
         THEN XirrResultInBounds
         ELSE xirrCall.result = xirrCall.guess * ((10 ^ 6) \div Scale)

\* an update produced exactly 10.0 and the loop went on with it
C10_Witness ==
  /\ xirrCall.pc = "loop"
  /\ xirrCall.iteration > 0
  /\ xirrCall.rate = 10 * Scale

-----------------------------------------------------------------------------
\* Properties of calculate_trailing_cagr

IsAscending(rows) ==
  \A i \in 1..(Len(rows) - 1) : Ordinal(rows[i].date) < Ordinal(rows[i + 1].date)

\* the rows of a set of rows with unique dates, in ascending date order
AscendingRows(S) ==
  CHOOSE s \in [1..Cardinality(S) -> S] :
    \A i, j \in 1..Cardinality(S) :
      i < j => Ordinal(s[i].date) < Ordinal(s[j].date)

RowSet(rows) == {rows[i] : i \in 1..Len(rows)}

TrailingReturned == trailingCall.pc = "done" /\ trailingCall.outcome = "returned"

TrailingHasMax == \E i \in 1..Len(trailingCall.periods) : trailingCall.periods[i] = -1

\* C2 as claimed: whenever the call returns a Max entry, the entry equals
\* cagr called on the series that was passed in.
C2_MaxEqualsCagrOfInput ==
  (TrailingReturned /\ TrailingHasMax) =>
    trailingCall.result["Max_CAGR"] = cagr(trailingCall.df.rows)

\* C2 as amended: the Max entry equals cagr of the series sorted by date, which
\* is cagr of the series passed in when that series is in ascending order.
C2_MaxEqualsCagrOfSorted ==
  (TrailingReturned /\ TrailingHasMax) =>
    /\ trailingCall.result["Max_CAGR"] =
         cagr(AscendingRows(RowSet(trailingCall.df.rows)))
    /\ IsAscending(trailingCall.df.rows) =>
         trailingCall.result["Max_CAGR"] = cagr(trailingCall.df.rows)

\* an ascending series of three points gave a Max entry over a positive span
C2_Witness ==
  /\ TrailingReturned
  /\ TrailingHasMax
  /\ Len(trailingCall.df.rows) = 3
  /\ IsAscending(trailingCall.df.rows)
  /\ trailingCall.result["Max_CAGR"].days > 0

TrailingFirstDate ==
  CHOOSE d \in {r.date : r \in RowSet(trailingCall.df.rows)} :
    \A r \in RowSet(trailingCall.df.rows) : Ordinal(d) <= Ordinal(r.date)

TrailingLastDate ==
  CHOOSE d \in {r.date : r \in RowSet(trailingCall.df.rows)} :
    \A r \in RowSet(trailingCall.df.rows) : Ordinal(d) >= Ordinal(r.date)

TrailingNavOn(date) ==
  (CHOOSE r \in RowSet(trailingCall.df.rows) : r.date = date).nav

\* days from the earliest to the latest date of the series
TrailingSpan == Ordinal(TrailingLastDate) - Ordinal(TrailingFirstDate)

TrailingSlice(N) ==
  AscendingRows({r \in RowSet(trailingCall.df.rows) :
                   Ordinal(r.date) >= Ordinal(MinusYears(TrailingLastDate, N))})

TrailingAbsent(N) ==
  Ordinal(MinusYears(TrailingLastDate, N)) < Ordinal(TrailingFirstDate)

TrailingCalled(N) ==
  \E j \in 1..Len(trailingCall.cagr_calls) : trailingCall.cagr_calls[j] = N

\* C4: a window of N > 0 years whose start date (last date minus N years) is
\* earlier than the first date is entered as None, without a call of cagr and
\* without failing; any other window is entered as cagr of the slice from the
\* start date to the last date (and the call fails at the window exactly when
\* cagr raises on that slice).
C4_AbsentOrCagrOfSlice ==
  /\ \A i \in 1..Len(trailingCall.periods) :
       (trailingCall.pc \in {"loop", "done"} /\ i < trailingCall.next
          /\ trailingCall.periods[i] > 0) =>
         LET N == trailingCall.periods[i]
         IN  IF TrailingAbsent(N)
               THEN /\ trailingCall.cagr_metrics[Label(N)] = None
                    /\ ~TrailingCalled(N)
               ELSE /\ trailingCall.cagr_metrics[Label(N)] = cagr(TrailingSlice(N))
                    /\ cagr(TrailingSlice(N)).kind = "rate"
  /\ (trailingCall.pc = "done" /\ trailingCall.failed_period > 0) =>
       /\ ~TrailingAbsent(trailingCall.failed_period)
       /\ cagr(TrailingSlice(trailingCall.failed_period)) = CagrError
       /\ trailingCall.outcome = CagrError.message

\* the one-year window started on the first date and got a rate, and the
\* two-year window was absent
C4_Witness ==
  /\ TrailingReturned
  /\ trailingCall.periods = <<1, 2>>
  /\ trailingCall.result["2Y_CAGR"] = None
  /\ trailingCall.result["1Y_CAGR"].kind = "rate"
  /\ MinusYears(TrailingLastDate, 1) = TrailingFirstDate

-----------------------------------------------------------------------------
\* Properties of calculate_rolling_returns

RollingDates == {r.date : r \in RowSet(rollingCall.df.rows)}

RollingFirstDate ==
  CHOOSE d \in RollingDates : \A x \in RollingDates : Ordinal(d) <= Ordinal(x)

\* a reported pair (past date, current date) keeps the claimed relations
RollingPairOk(pair) ==
  LET past == ParseIso(pair[1])
      current == ParseIso(pair[2])
  IN  /\ current \in RollingDates
      /\ Ordinal(past) <= Ordinal(MinusYears(current, rollingCall.period))
      /\ Ordinal(past) >= Ordinal(RollingFirstDate)
      /\ \E x \in RollingDates :
           Ordinal(x) <= Ordinal(MinusYears(current, rollingCall.period))

\* C7: whenever calculate_rolling_returns returns, the past date of
\* max_return_period and of min_return_period is <= the pair's current date
\* minus the period and >= the first date of the series, and the current date
\* of a pair is never one whose offset date has no NAV at or before it.
C7_ReportedPairsInRange ==
  (rollingCall.pc = "done" /\ rollingCall.outcome = "returned") =>
    /\ RollingPairOk(rollingCall.result.max_return_period)
    /\ RollingPairOk(rollingCall.result.min_return_period)

\* a result over a series whose leading dates were dropped
C7_Witness ==
  /\ rollingCall.pc = "done"
  /\ rollingCall.outcome = "returned"
  /\ Len(rollingCall.rolling_df) < Len(rollingCall.df.rows)
  /\ rollingCall.result.max_return_period # rollingCall.result.min_return_period

-----------------------------------------------------------------------------
\* Properties of calculate_sip_returns

SipReturned == sipCall.pc = "done" /\ sipCall.outcome = "returned"

SipInput == sipCall.sip_cashflows.rows

SipNavSet == RowSet(sipCall.nav_df.rows)

\* the NAV points dated at or after a contribution date
SipAtOrAfter(date) == {r \in SipNavSet : Ordinal(r.date) >= Ordinal(date)}

\* the NAV point with the smallest date >= the contribution date
SipNextNav(date) ==
  CHOOSE r \in SipAtOrAfter(date) :
    \A x \in SipAtOrAfter(date) : Ordinal(r.date) <= Ordinal(x.date)

\* C5: total_invested is the sum of the amounts of the contributions that
\* were matched to a NAV; a contribution dated after every NAV date adds
\* nothing to it.
C5_InvestedCountsMatchedOnly ==
  SipReturned =>
    sipCall.total_invested =
      SumSeq([i \in 1..Len(SipInput) |->
                IF SipAtOrAfter(SipInput[i].date) # {}
                  THEN SipInput[i].amount ELSE 0])

\* C6: every contribution is priced at the NAV of the smallest NAV date >= its
\* date (never an earlier one), its units are amount / that NAV, and
\* total_units is the sum of the units, whatever the row order of the inputs.
C6_ForwardPricing ==
  SipReturned =>
    /\ Len(sipCall.merged) = Len(SipInput)
    /\ \A i \in 1..Len(sipCall.merged) :
         LET m == sipCall.merged[i]
         IN  IF SipAtOrAfter(m.date) = {}
               THEN m.nav = NaN /\ m.units = NaN
               ELSE /\ m.nav = <<SipNextNav(m.date).nav>>
                    /\ Ordinal(SipNextNav(m.date).date) >= Ordinal(m.date)
                    /\ m.units = <<Frac(m.amount, SipNextNav(m.date).nav)>>
    /\ sipCall.total_units =
         SumSkipNaN([i \in 1..Len(SipInput) |->
                       IF SipAtOrAfter(SipInput[i].date) = {} THEN NaN
                       ELSE <<Frac(SipInput[i].amount,
                                   SipNextNav(SipInput[i].date).nav)>>])

\* a contribution on 2020-01-15, between two NAV dates with different values
\* given in descending order, bought units at the later NAV
C6_Witness ==
  /\ SipReturned
  /\ ~IsAscending(sipCall.nav_df.rows)
  /\ \E i \in 1..Len(sipCall.merged) :
       /\ sipCall.merged[i].date = <<2020, 1, 15>>
       /\ sipCall.merged[i].amount > 0
       /\ sipCall.merged[i].nav # NaN
       /\ \E r \in SipNavSet :
            /\ Ordinal(r.date) < Ordinal(<<2020, 1, 15>>)
            /\ <<r.nav>> # sipCall.merged[i].nav

SipFirstContribution ==
  CHOOSE d \in {r.date : r \in RowSet(SipInput)} :
    \A r \in RowSet(SipInput) : Ordinal(d) <= Ordinal(r.date)

SipLastNavDate ==
  CHOOSE d \in {r.date : r \in SipNavSet} :
    \A r \in SipNavSet : Ordinal(d) >= Ordinal(r.date)

\* days from the first contribution date to the last NAV date
SipDays == DaysBetween(SipLastNavDate, SipFirstContribution)

SipFormula ==
  SipAnnualized(sipCall.current_value, sipCall.total_invested, SipDays)

\* C9 as claimed: the annualized return is 0 when years <= 0 or
\* total_invested <= 0, and in every other case, for one contribution or
\* more, it is ((current_value / total_invested) ** (1 / years) - 1) * 100.
C9_ZeroOnlyWithoutSpanOrInvestment ==
  SipReturned =>
    sipCall.annualized_return =
      IF SipDays <= 0 \/ sipCall.total_invested <= 0 THEN SipZero ELSE SipFormula

\* C9 as amended: the annualized return is 0 when there are fewer than two
\* contributions, or years <= 0, or total_invested <= 0, and in every other
\* case it is ((current_value / total_invested) ** (1 / years) - 1) * 100.
C9_ZeroBelowTwoContributions ==
  SipReturned =>
    sipCall.annualized_return =
      IF Len(SipInput) < 2 \/ SipDays <= 0 \/ sipCall.total_invested <= 0
        THEN SipZero ELSE SipFormula

\* two matched contributions over a positive span with a return that is not 0
C9_Witness ==
  /\ SipReturned
  /\ Len(SipInput) = 2
  /\ \A i \in 1..2 : sipCall.merged[i].amount > 0 /\ sipCall.merged[i].nav # NaN
  /\ SipDays > 0
  /\ sipCall.annualized_return # SipZero
  /\ sipCall.result.annualized_return = SipFormula

-----------------------------------------------------------------------------
\* Properties of split_into_date_pairs

SplitReturned == splitCall.pc = "done"

\* the dates that the i-th returned pair names
SplitBegin(i) == ParseIso(splitCall.result[i][1])

SplitEnd(i) == ParseIso(splitCall.result[i][2])

\* the days of the asked range, first and last included
SplitRangeDays == Ordinal(splitCall.end_date) - Ordinal(splitCall.start_date) + 1

\* C11: for start_date <= end_date and n_days >= 1 the call returns pairs in
\* ascending order that do not overlap, span at most n_days days each, begin
\* the day after the previous pair ends, start at start_date and end at
\* end_date, so that every day of the range is requested exactly once.
C11_PairsCoverRange ==
  (SplitReturned /\ SplitRangeDays >= 1 /\ splitCall.n_days >= 1) =>
    /\ Len(splitCall.result) >= 1
    /\ Len(splitCall.result) <= SplitRangeDays
    /\ SplitBegin(1) = splitCall.start_date
    /\ SplitEnd(Len(splitCall.result)) = splitCall.end_date
    /\ \A i \in 1..Len(splitCall.result) :
         /\ Ordinal(SplitBegin(i)) <= Ordinal(SplitEnd(i))
         /\ Ordinal(SplitEnd(i)) - Ordinal(SplitBegin(i)) + 1 <= splitCall.n_days
    /\ \A i \in 1..(Len(splitCall.result) - 1) :
         Ordinal(SplitBegin(i + 1)) = Ordinal(SplitEnd(i)) + 1

=============================================================================
